---- MODULE Spec2Model ----
(***************************************************************************)
(* Model of the XIAO ESP32-C3 weather node (XiaoWeather/src/main.cpp):     *)
(* setup(), the cooperative loop() with its link / session / sample /      *)
(* display / state-publish stages, and the broker it talks to.             *)
(***************************************************************************)
EXTENDS Integers, Sequences, FiniteSets, TLC

(* ------------------------------ bounds -------------------------------- *)
\* the clock is not advanced beyond this many milliseconds since boot
MaxMillis == 34000
\* the broker accepts at most this many connects in one run
MaxSessions == 2

(* ------------------------- program constants -------------------------- *)
oledDelay == 2000
bmeDelay == 41
mqttDelay == 10000
wifiReconnectDelay == 30000
\* the retry cooldown of the link and of the session
RetryCooldown == wifiReconnectDelay
\* millis() and the deadlines are unsigned long: arithmetic modulo 2^w.
\* The width is 32 on the ESP32-C3; it is 30 here, the widest for which
\* a - b + 2^w stays within the integers the model checker handles.
ULONG_MOD == 2^30
\* marker for a float that is not a number (what isnan() tests)
NaN == -999999

WL_CONNECTED == "WL_CONNECTED"
WL_DISCONNECTED == "WL_DISCONNECTED"

MQTT_STATE_TOPIC == "pc_xiaoc3_weather/state"
MQTT_AVAILABILITY_TOPIC == "pc_xiaoc3_weather/availability"
\* "%s/sensor/%s/<key>/config" with MQTT_DISCOVERY_PREFIX and DEVICE_NAME
ConfigTopic ==
  [ temperature   |-> "homeassistant/sensor/pc_xiaoc3_weather/temperature/config",
    humidity      |-> "homeassistant/sensor/pc_xiaoc3_weather/humidity/config",
    pressure      |-> "homeassistant/sensor/pc_xiaoc3_weather/pressure/config",
    temperature_f |-> "homeassistant/sensor/pc_xiaoc3_weather/temperature_f/config",
    pressure_bar  |-> "homeassistant/sensor/pc_xiaoc3_weather/pressure_bar/config",
    altitude      |-> "homeassistant/sensor/pc_xiaoc3_weather/altitude/config" ]
DiscoveryKeys == <<"temperature", "humidity", "pressure">>
LegacyKeys == <<"temperature_f", "pressure_bar", "altitude">>
DiscoveryTopics == { ConfigTopic[DiscoveryKeys[i]] : i \in 1..3 }
LegacyTopics == { ConfigTopic[LegacyKeys[i]] : i \in 1..3 }
Topics == DiscoveryTopics \cup LegacyTopics \cup {MQTT_STATE_TOPIC, MQTT_AVAILABILITY_TOPIC}

\* the serialized discovery document of one sub-sensor (a non-empty JSON text)
DiscoveryPayload ==
  [ temperature |-> "{name:Temperature,unique_id:xiao_weather_temperature,unit:C}",
    humidity    |-> "{name:Humidity,unique_id:xiao_weather_humidity,unit:%}",
    pressure    |-> "{name:Pressure,unique_id:xiao_weather_pressure,unit:hPa}" ]

(* ------------------------------ inputs -------------------------------- *)
\* what the sensor may return for (humidity, temperature, pressure), in
\* hundredths of the unit: a good sample, and one with each channel NaN
Samples == { <<4120, 2345, 101327>>, <<NaN, 2345, 101327>>,
             <<4120, NaN, 101327>>, <<4120, 2345, NaN>> }
\* time that may pass between two iterations of loop(), in milliseconds
Elapsed == {10000}
\* number of 500 ms polls after which the link is associated at boot
AssocPolls == {1, 21}

VARIABLES
  pc,                 \* position of the program: boot, loop, halted
  now,                \* millis()
  oledTime, bmeTime, mqttTime, wifiReconnectTime,
  mqttDiscoverySent, mqttResetRequested,
  humid, tempC, pressure,
  screen,             \* the frame last flushed to the display
  wifiStatus,         \* WiFi.status()
  mqttConnected,      \* mqttClient.connected()
  brokerSession,      \* the broker's side of the session: none, will, plain
  retained,           \* the broker's retained payload per topic ("" = none)
  wire,               \* publishes issued since the last accepted connect, a run
                      \* of publishes to the state topic kept as its latest one
  accepted,           \* number of connects the broker has accepted
  connectLog,         \* the latest connect attempt of loop() (time, outcome) and
                      \* the time of the attempt before it, if that one failed
  availLog,           \* the availability payloads the broker has published
  beginLog,           \* times of the last two WiFi.begin calls
  bootFrames,         \* the frames setup() has flushed in this boot
  tickPubs,           \* loop stages that called publish in the last iteration
  stage               \* the stage of loop() (or setup) that is executing

vars == << pc, now, oledTime, bmeTime, mqttTime, wifiReconnectTime,
           mqttDiscoverySent, mqttResetRequested, humid, tempC, pressure,
           screen, wifiStatus, mqttConnected, brokerSession, retained, wire,
           accepted, connectLog, availLog, beginLog, bootFrames, tickPubs, stage >>

\* The whole state as one record, threaded through the calls of a handler.
State ==
  [ pc |-> pc, now |-> now, oledTime |-> oledTime, bmeTime |-> bmeTime,
    mqttTime |-> mqttTime, wifiReconnectTime |-> wifiReconnectTime,
    mqttDiscoverySent |-> mqttDiscoverySent, mqttResetRequested |-> mqttResetRequested,
    humid |-> humid, tempC |-> tempC, pressure |-> pressure, screen |-> screen,
    wifiStatus |-> wifiStatus, mqttConnected |-> mqttConnected,
    brokerSession |-> brokerSession, retained |-> retained, wire |-> wire,
    accepted |-> accepted, connectLog |-> connectLog, availLog |-> availLog,
    beginLog |-> beginLog,
    bootFrames |-> bootFrames, tickPubs |-> tickPubs, stage |-> stage ]

Becomes(s) ==
  /\ pc' = s.pc /\ now' = s.now /\ oledTime' = s.oledTime /\ bmeTime' = s.bmeTime
  /\ mqttTime' = s.mqttTime /\ wifiReconnectTime' = s.wifiReconnectTime
  /\ mqttDiscoverySent' = s.mqttDiscoverySent
  /\ mqttResetRequested' = s.mqttResetRequested
  /\ humid' = s.humid /\ tempC' = s.tempC /\ pressure' = s.pressure
  /\ screen' = s.screen /\ wifiStatus' = s.wifiStatus
  /\ mqttConnected' = s.mqttConnected /\ brokerSession' = s.brokerSession
  /\ retained' = s.retained /\ wire' = s.wire /\ accepted' = s.accepted
  /\ connectLog' = s.connectLog /\ availLog' = s.availLog /\ beginLog' = s.beginLog
  /\ bootFrames' = s.bootFrames /\ tickPubs' = s.tickPubs /\ stage' = s.stage

(* ------------------------------ helpers ------------------------------- *)
isnan(x) == x = NaN

\* unsigned long subtraction, modulo 2^w
USub(a, b) == (a - b + ULONG_MOD) % ULONG_MOD

\* millis() - t >= d || t == 0
Due(s, t, d) == USub(s.now, t) >= d \/ t = 0

Invalid(h, t, p) == isnan(h) \/ isnan(t) \/ isnan(p)

\* delay(ms)
delay(s, ms) == [s EXCEPT !.now = (@ + ms) % ULONG_MOD]

\* display.display() of a frame
Show(s, frame) == [s EXCEPT !.screen = frame]

\* round(x * 10) / 10.0 on a value given in hundredths: tenths, half away from zero
Round1(x) == IF x >= 0 THEN (x + 5) \div 10 ELSE -((5 - x) \div 10)

\* a float member of the JSON document as serializeJson writes it
JsonNumber(x) == IF isnan(x) THEN "null" ELSE ToString(Round1(x))

\* serializeJson of {temperature, humidity, pressure}
StateJson(t, h, p) ==
  "{temperature:" \o JsonNumber(t) \o ",humidity:" \o JsonNumber(h)
     \o ",pressure:" \o JsonNumber(p) \o "}"

(* --------------------- the broker client and broker ------------------- *)
\* the log of publishes with one more entry
Logged(w, e) ==
  IF w # << >> /\ e.topic = MQTT_STATE_TOPIC /\ w[Len(w)].topic = MQTT_STATE_TOPIC
     /\ w[Len(w)].payload # "" /\ e.payload # ""
  THEN [w EXCEPT ![Len(w)] = e]
  ELSE Append(w, e)

\* mqttClient.publish(topic, payload, true): the call is logged; the broker
\* stores the retained payload when the session is up at both ends
Publish(s, topic, payload) ==
  LET arrives == s.mqttConnected /\ s.brokerSession # "none"
  IN  [ s EXCEPT
          !.wire = Logged(@, [ topic |-> topic, payload |-> payload, retain |-> TRUE,
                               link |-> (s.wifiStatus = WL_CONNECTED),
                               stage |-> s.stage ]),
          !.retained = IF arrives THEN [@ EXCEPT ![topic] = payload] ELSE @,
          !.availLog = IF arrives /\ topic = MQTT_AVAILABILITY_TOPIC
                       THEN Append(@, payload) ELSE @,
          !.tickPubs = @ \cup {s.stage} ]

\* the broker publishes the last-will of the session it holds, if it has one
PublishWill(s) ==
  IF s.brokerSession = "will"
  THEN [s EXCEPT !.retained[MQTT_AVAILABILITY_TOPIC] = "offline",
                 !.availLog = Append(@, "offline")]
  ELSE s

\* mqttClient.connect(...) accepted by the broker; will is "will" or "plain".
\* A session of the same client id that the broker still holds is taken
\* over: the broker closes it and publishes its last-will first.
Connect(s, will) ==
  [ PublishWill(s) EXCEPT
      !.mqttConnected = TRUE,
      !.brokerSession = will,
      !.accepted = @ + 1,
      !.wire = << >> ]

\* mqttClient.disconnect(): DISCONNECT is sent, the broker discards the will
Disconnect(s) == [s EXCEPT !.mqttConnected = FALSE, !.brokerSession = "none"]

RECURSIVE PublishConfigs(_, _, _)
PublishConfigs(s, keys, payloadOf) ==
  IF keys = << >> THEN s
  ELSE PublishConfigs(Publish(s, ConfigTopic[Head(keys)], payloadOf[Head(keys)]),
                      Tail(keys), payloadOf)

(* --------------------------- WiFi functions --------------------------- *)
\* WiFi.begin(WIFI_SSID, WIFI_PASSWORD)
WiFiBegin(s) ==
  [s EXCEPT !.wifiStatus = WL_DISCONNECTED,
            !.beginLog = [prev |-> s.beginLog.last, last |-> s.now]]

\* polls: the number of 500 ms polls after which WiFi.status() reports
\* WL_CONNECTED (more than 20: not while setupWiFi waits)
setupWiFi(s, polls) ==
  LET begun == WiFiBegin(s)
      waited == delay(begun, 500 * (IF polls < 20 THEN polls ELSE 20))
  IN  [waited EXCEPT !.wifiStatus = IF polls <= 20 THEN WL_CONNECTED ELSE WL_DISCONNECTED]

checkWiFi(s) ==
  IF s.wifiStatus # WL_CONNECTED
     /\ USub(s.now, s.wifiReconnectTime) >= wifiReconnectDelay
  THEN WiFiBegin([s EXCEPT !.wifiReconnectTime = s.now])
  ELSE s

(* --------------------------- MQTT functions --------------------------- *)
EmptyPayload == [ k \in DOMAIN ConfigTopic |-> "" ]

\* variant: the availability topic is not cleared
resetMQTTAvailabilityKept(s) ==
  delay(Publish(PublishConfigs(s, DiscoveryKeys \o LegacyKeys, EmptyPayload),
                MQTT_STATE_TOPIC, ""),
        500)

\* variant: the entities of the older firmware are left alone
resetMQTTCurrentOnly(s) ==
  delay(Publish(Publish(PublishConfigs(s, DiscoveryKeys, EmptyPayload),
                        MQTT_STATE_TOPIC, ""),
                MQTT_AVAILABILITY_TOPIC, ""),
        500)

resetMQTT(s) ==
  delay(Publish(Publish(PublishConfigs(s, DiscoveryKeys \o LegacyKeys, EmptyPayload),
                        MQTT_STATE_TOPIC, ""),
                MQTT_AVAILABILITY_TOPIC, ""),
        500)

publishDiscovery(s) ==
  IF s.mqttDiscoverySent THEN s
  ELSE [ PublishConfigs(s, DiscoveryKeys, DiscoveryPayload)
           EXCEPT !.mqttDiscoverySent = TRUE ]

\* variant: the connect call of mqttReconnect without the last-will arguments
ReconnectNoWill == "plain"

\* the last-will arguments of the connect call in mqttReconnect
ReconnectWill == "will"

\* variant: the latch mqttDiscoverySent is not cleared on reconnect
mqttReconnectLatchKept(s, ok) ==
  IF s.mqttConnected THEN s
  ELSE IF s.wifiStatus # WL_CONNECTED THEN s
  ELSE LET tried == [s EXCEPT !.connectLog =
                        [ prev |-> IF s.connectLog.ok THEN -1 ELSE s.connectLog.last,
                          last |-> s.now, ok |-> ok ]]
       IN  IF ok
           THEN publishDiscovery(
                  Publish(Connect(tried, ReconnectWill), MQTT_AVAILABILITY_TOPIC, "online"))
           ELSE tried

\* variant: the discovery configs are published before "online"
mqttReconnectDiscoveryFirst(s, ok) ==
  IF s.mqttConnected THEN s
  ELSE IF s.wifiStatus # WL_CONNECTED THEN s
  ELSE LET tried == [s EXCEPT !.connectLog =
                        [ prev |-> IF s.connectLog.ok THEN -1 ELSE s.connectLog.last,
                          last |-> s.now, ok |-> ok ]]
       IN  IF ok
           THEN Publish(publishDiscovery([ Connect(tried, ReconnectWill)
                                             EXCEPT !.mqttDiscoverySent = FALSE ]),
                        MQTT_AVAILABILITY_TOPIC, "online")
           ELSE tried

\* variant: "online" is not published on connect
mqttReconnectNoOnline(s, ok) ==
  IF s.mqttConnected THEN s
  ELSE IF s.wifiStatus # WL_CONNECTED THEN s
  ELSE LET tried == [s EXCEPT !.connectLog =
                        [ prev |-> IF s.connectLog.ok THEN -1 ELSE s.connectLog.last,
                          last |-> s.now, ok |-> ok ]]
       IN  IF ok
           THEN publishDiscovery([ Connect(tried, ReconnectWill)
                                     EXCEPT !.mqttDiscoverySent = FALSE ])
           ELSE tried

\* ok: whether the broker accepts this connect
mqttReconnect(s, ok) ==
  IF s.mqttConnected THEN s
  ELSE IF s.wifiStatus # WL_CONNECTED THEN s
  ELSE LET tried == [s EXCEPT !.connectLog =
                        [ prev |-> IF s.connectLog.ok THEN -1 ELSE s.connectLog.last,
                          last |-> s.now, ok |-> ok ]]
       IN  IF ok
           THEN publishDiscovery(
                  [ Publish(Connect(tried, ReconnectWill), MQTT_AVAILABILITY_TOPIC, "online")
                      EXCEPT !.mqttDiscoverySent = FALSE ])
           ELSE tried

\* variant: the state is published without asking connected()
publishSensorDataUnguarded(s) ==
  Publish(s, MQTT_STATE_TOPIC, StateJson(s.tempC, s.humid, s.pressure))

publishSensorData(s) ==
  IF ~s.mqttConnected THEN s
  ELSE Publish(s, MQTT_STATE_TOPIC, StateJson(s.tempC, s.humid, s.pressure))

(* --------------------------- sensor, display -------------------------- *)
\* r: what the sensor returns for (humidity, temperature, pressure)
readBME(s, r) == [s EXCEPT !.humid = r[1], !.tempC = r[2], !.pressure = r[3]]

printBME(s) ==
  IF isnan(s.humid) \/ isnan(s.tempC)
  THEN delay(Show(s, "BME Error"), 1000)
  ELSE Show(s, "Reading")

(* ------------------------------- setup -------------------------------- *)
\* RAM after reset: the globals as initialised at their definitions
PowerOn ==
  [ pc |-> "boot", now |-> 0, oledTime |-> 0, bmeTime |-> 0, mqttTime |-> 0,
    wifiReconnectTime |-> 0, mqttDiscoverySent |-> FALSE,
    mqttResetRequested |-> FALSE, humid |-> 0, tempC |-> 0, pressure |-> 0,
    screen |-> "blank", wifiStatus |-> WL_DISCONNECTED, mqttConnected |-> FALSE,
    connectLog |-> [prev |-> -1, last |-> -1, ok |-> FALSE],
    beginLog |-> [prev |-> -1, last |-> -1], bootFrames |-> << >>,
    tickPubs |-> {}, stage |-> "setup" ]

\* ESP.restart(): RAM is re-initialised; the broker keeps what it has
Restart(s) == [ f \in DOMAIN s |-> IF f \in DOMAIN PowerOn THEN PowerOn[f] ELSE s[f] ]

\* a frame of setup()
BootShow(s, frame) == [Show(s, frame) EXCEPT !.bootFrames = Append(@, frame)]

\* lines 413-448: the reset block of setup(); ok: the broker accepts the connect
setupReset(s, ok) ==
  IF s.mqttResetRequested /\ s.wifiStatus = WL_CONNECTED
  THEN LET shown == BootShow(s, "Resetting MQTT")
       IN  IF ok
           THEN Restart(delay(BootShow(Disconnect(resetMQTT(Connect(shown, "plain"))),
                                       "MQTT Reset Complete"), 3000))
           ELSE [ delay(BootShow(shown, "MQTT Reset FAILED"), 5000)
                    EXCEPT !.mqttResetRequested = FALSE ]
  ELSE s

\* setup() with the display and the sensor present
setup(s, btnLow, polls, ok) ==
  LET s1 == [delay(s, 1000) EXCEPT !.mqttResetRequested = btnLow, !.stage = "setup"]
      s2 == delay(s1, 3000)                                   \* initOled
      s3 == BootShow(s2, IF s2.mqttResetRequested THEN "MQTT RESET MODE"
                                                  ELSE "Connecting to WiFi")
      s4 == setupWiFi(s3, polls)
      s5 == setupReset(s4, ok)
  IN  IF s5.pc = "boot" /\ s5.now = 0 THEN s5                 \* restarted
      ELSE IF s5.wifiStatus = WL_CONNECTED
           THEN [delay(BootShow(s5, "WiFi Connected"), 2000) EXCEPT !.pc = "loop"]
           ELSE [s5 EXCEPT !.pc = "loop"]

(* -------------------------------- loop -------------------------------- *)
\* variant: the reconnect is attempted only while the discovery latch is clear
LoopSessionLatched(s, ok) ==
  IF s.wifiStatus = WL_CONNECTED
  THEN IF ~s.mqttConnected /\ ~s.mqttDiscoverySent THEN mqttReconnect(s, ok) ELSE s
  ELSE s

LoopSession(s, ok) ==
  IF s.wifiStatus = WL_CONNECTED
  THEN IF ~s.mqttConnected THEN mqttReconnect(s, ok) ELSE s
  ELSE s

LoopSample(s, r) ==
  IF Due(s, s.bmeTime, bmeDelay) THEN readBME([s EXCEPT !.bmeTime = s.now], r) ELSE s

LoopDisplay(s) ==
  IF Due(s, s.oledTime, oledDelay) THEN printBME([s EXCEPT !.oledTime = s.now]) ELSE s

\* variant: the state deadline is not re-armed when it fires
LoopStateNotRearmed(s) ==
  IF Due(s, s.mqttTime, mqttDelay) THEN publishSensorData(s) ELSE s

LoopState(s) ==
  IF Due(s, s.mqttTime, mqttDelay) THEN publishSensorData([s EXCEPT !.mqttTime = s.now]) ELSE s

\* one iteration of loop(); ok and r are what the broker and the sensor answer
loop(s, ok, r) ==
  LET s0 == [s EXCEPT !.tickPubs = {}, !.stage = "link"]
      s1 == [checkWiFi(s0) EXCEPT !.stage = "session"]
      s2 == [LoopSession(s1, ok) EXCEPT !.stage = "sample"]
      s3 == [LoopSample(s2, r) EXCEPT !.stage = "display"]
      s4 == [LoopDisplay(s3) EXCEPT !.stage = "state"]
  IN  LoopState(s4)

(* ------------------------------- Init --------------------------------- *)
\* what the broker holds at power-on: the retained messages of an earlier
\* run of the node and the entities of an older firmware
PriorRetained ==
  [ t \in Topics |->
      CASE t \in LegacyTopics -> "{legacy}"
        [] t = MQTT_AVAILABILITY_TOPIC -> "offline"
        [] t = MQTT_STATE_TOPIC -> StateJson(2345, 4120, 101327)
        [] OTHER -> DiscoveryPayload[CHOOSE k \in DOMAIN DiscoveryPayload : ConfigTopic[k] = t] ]

\* the node at power-on and a broker that holds no session of it
InitNode ==
  /\ pc = PowerOn.pc /\ now = PowerOn.now
  /\ oledTime = PowerOn.oledTime /\ bmeTime = PowerOn.bmeTime
  /\ mqttTime = PowerOn.mqttTime /\ wifiReconnectTime = PowerOn.wifiReconnectTime
  /\ mqttDiscoverySent = PowerOn.mqttDiscoverySent
  /\ mqttResetRequested = PowerOn.mqttResetRequested
  /\ humid = PowerOn.humid /\ tempC = PowerOn.tempC /\ pressure = PowerOn.pressure
  /\ screen = PowerOn.screen
  /\ wifiStatus = PowerOn.wifiStatus /\ mqttConnected = PowerOn.mqttConnected
  /\ connectLog = PowerOn.connectLog /\ beginLog = PowerOn.beginLog
  /\ bootFrames = PowerOn.bootFrames /\ tickPubs = PowerOn.tickPubs
  /\ stage = PowerOn.stage
  /\ brokerSession = "none"
  /\ wire = << >>
  /\ availLog = << >>
  /\ accepted = 0

Init == InitNode /\ retained = PriorRetained

(* ------------------------------ actions ------------------------------- *)
\* display.begin fails in initOled: for (;;);
SetupOledMissing ==
  /\ pc = "boot"
  /\ \E btnLow \in BOOLEAN :
       Becomes([delay(State, 1000) EXCEPT !.mqttResetRequested = btnLow, !.pc = "halted"])

\* bme.begin fails in initBME: while (1) delay(10);
SetupBMEMissing ==
  /\ pc = "boot"
  /\ \E btnLow \in BOOLEAN :
       Becomes([delay(State, 4000) EXCEPT !.mqttResetRequested = btnLow, !.pc = "halted"])

Setup ==
  /\ pc = "boot"
  /\ \E btnLow \in BOOLEAN, polls \in AssocPolls, ok \in BOOLEAN :
       /\ ok => accepted < MaxSessions
       /\ Becomes(setup(State, btnLow, polls, ok))

Loop ==
  /\ pc = "loop"
  /\ \E ok \in BOOLEAN, r \in Samples :
       /\ ok => accepted < MaxSessions
       /\ loop(State, ok, r).now <= MaxMillis
       /\ Becomes(loop(State, ok, r))

(* ---------------------------- environment ----------------------------- *)
\* time passes between two iterations of loop()
Elapse ==
  /\ pc = "loop"
  /\ \E d \in Elapsed :
       /\ now + d <= MaxMillis
       /\ Becomes(delay(State, d))

\* the access point goes away; the TCP socket under the MQTT client may or
\* may not report the loss yet
LinkLost ==
  /\ pc = "loop"
  /\ wifiStatus = WL_CONNECTED
  /\ \E seen \in BOOLEAN :
       Becomes([State EXCEPT !.wifiStatus = WL_DISCONNECTED,
                             !.mqttConnected = IF seen THEN FALSE ELSE @])

\* the association requested by WiFi.begin completes
LinkAssociated ==
  /\ pc = "loop"
  /\ wifiStatus # WL_CONNECTED
  /\ Becomes([State EXCEPT !.wifiStatus = WL_CONNECTED])

\* the client notices that its transport is gone: connected() turns false
TransportLost ==
  /\ pc = "loop"
  /\ mqttConnected
  /\ Becomes([State EXCEPT !.mqttConnected = FALSE])

\* the broker ends a session that was not closed by DISCONNECT and
\* publishes its last-will, if it has one
BrokerDrop ==
  /\ pc = "loop"
  /\ brokerSession # "none"
  /\ Becomes([PublishWill(State) EXCEPT !.brokerSession = "none"])

Next ==
  \/ SetupOledMissing
  \/ SetupBMEMissing
  \/ Setup
  \/ Loop
  \/ Elapse
  \/ LinkLost
  \/ LinkAssociated
  \/ TransportLost
  \/ BrokerDrop

Spec == Init /\ [][Next]_vars

TypeOK ==
  /\ pc \in {"boot", "loop", "halted"}
  /\ now \in 0..MaxMillis
  /\ mqttConnected \in BOOLEAN
  /\ brokerSession \in {"none", "will", "plain"}
  /\ accepted \in 0..MaxSessions

(* ------------------- the broker-drop scenario ------------------------- *)
\* setup() with the button released and the access point answering
SetupAssociated ==
  /\ pc = "boot"
  /\ Becomes(setup(State, FALSE, 1, FALSE))

\* an iteration of loop() against a broker that accepts every connect
LoopAccepted ==
  /\ pc = "loop"
  /\ ~mqttConnected => accepted < MaxSessions
  /\ \E r \in Samples :
       /\ loop(State, TRUE, r).now <= MaxMillis
       /\ Becomes(loop(State, TRUE, r))

\* the broker closes the TCP connection of the session: the last-will is
\* published and connected() turns false.  A session is killed only while
\* the clock leaves room for one more state period (plus the one second of
\* the error banner) and the broker for one more session.
BrokerKill ==
  /\ pc = "loop"
  /\ mqttConnected /\ brokerSession # "none"
  /\ accepted < MaxSessions
  /\ now + mqttDelay + 1000 <= MaxMillis
  /\ Becomes([PublishWill(State) EXCEPT !.brokerSession = "none",
                                        !.mqttConnected = FALSE])

NextRecovery ==
  \/ SetupAssociated
  \/ LoopAccepted
  \/ Elapse
  \/ BrokerKill

\* ENABLED <<LoopAccepted>>_vars, <<Elapse>>_vars and <<SetupAssociated>>_vars
\* as state predicates
LoopAcceptedCanStep ==
  /\ pc = "loop"
  /\ ~mqttConnected => accepted < MaxSessions
  /\ \E r \in Samples :
       /\ loop(State, TRUE, r).now <= MaxMillis
       /\ loop(State, TRUE, r) # State

ElapseCanStep == pc = "loop" /\ \E d \in Elapsed : now + d <= MaxMillis

SetupCanStep == pc = "boot"

\* the runtime calls setup() and then loop() again and again, and time
\* passes: weak fairness of the three actions, written out
SpecRecovery ==
  /\ Init /\ [][NextRecovery]_vars
  /\ ([]<>(~SetupCanStep) \/ []<><<SetupAssociated>>_vars)
  /\ ([]<>(~LoopAcceptedCanStep) \/ []<><<LoopAccepted>>_vars)
  /\ ([]<>(~ElapseCanStep) \/ []<><<Elapse>>_vars)

(* ----------------------- the reset scenario --------------------------- *)
\* what the broker may hold for a topic before a reset
PriorPayloads == {"", "{prior}"}

\* power-on against a broker that holds any combination of retained messages
InitAnyRetained == InitNode /\ retained \in [Topics -> PriorPayloads]

\* setup() with the button held low, the access point answering and the
\* broker accepting the plain connect
SetupResetAccepted ==
  /\ pc = "boot"
  /\ accepted < MaxSessions
  /\ Becomes(setup(State, TRUE, 1, TRUE))

NextReset == SetupResetAccepted

SpecReset == InitAnyRetained /\ [][NextReset]_vars

(* ------------------ the timers at the wrap of millis() ---------------- *)
\* how far past the wrap the clock is followed, in milliseconds
WrapWindow == 2100
\* values of millis() shortly before it wraps
WrapStarts == { ULONG_MOD - 2000, ULONG_MOD - 1041 }
\* time that may pass between two iterations of loop() around the wrap
WrapElapsed == {41, 1000}

\* the node has been in loop() since boot, with the link down: the sample
\* and display deadlines have just fired, the state deadline 8000 ms ago
InitNearWrap ==
  /\ pc = "loop" /\ stage = "state"
  /\ now \in WrapStarts
  /\ bmeTime = now /\ oledTime = now /\ mqttTime = now - 8000
  /\ wifiReconnectTime = now
  /\ humid = 4120 /\ tempC = 2345 /\ pressure = 101327
  /\ screen = "Reading"
  /\ mqttDiscoverySent = PowerOn.mqttDiscoverySent
  /\ mqttResetRequested = PowerOn.mqttResetRequested
  /\ wifiStatus = PowerOn.wifiStatus /\ mqttConnected = PowerOn.mqttConnected
  /\ connectLog = PowerOn.connectLog /\ beginLog = PowerOn.beginLog
  /\ bootFrames = PowerOn.bootFrames /\ tickPubs = PowerOn.tickPubs
  /\ brokerSession = "none" /\ retained = PriorRetained
  /\ wire = << >> /\ availLog = << >> /\ accepted = 0

\* an iteration of loop() with a valid reading
TimerTick ==
  /\ pc = "loop"
  /\ \E r \in { x \in Samples : ~Invalid(x[1], x[2], x[3]) } :
       Becomes(loop(State, FALSE, r))

\* time passes, possibly across the wrap of millis()
ElapseWrapped ==
  /\ pc = "loop"
  /\ \E d \in WrapElapsed :
       LET t == (now + d) % ULONG_MOD
       IN  /\ t >= ULONG_MOD - 2000 \/ t <= WrapWindow
           /\ Becomes([State EXCEPT !.now = t])

NextTimer == TimerTick \/ ElapseWrapped

SpecTimer == InitNearWrap /\ [][NextTimer]_vars

(* ------------------------- reading the logs --------------------------- *)
\* the log belongs to a session opened by mqttReconnect
RuntimeSession == wire # << >> /\ wire[1].stage = "session"

\* positions of the log with a publish to topic t
On(t) == { i \in DOMAIN wire : wire[i].topic = t }


\* the broker holds no retained message of the node
Cleared == [ t \in Topics |-> "" ]

\* the log w is one empty retained publish to each of the eight topics
EightEmptyPublishes(w) ==
  /\ Len(w) = 8
  /\ \A t \in Topics : \E i \in DOMAIN w : w[i].topic = t
  /\ \A i \in DOMAIN w : w[i].payload = "" /\ w[i].retain /\ w[i].stage = "setup"

\* the step is one iteration of loop()
LoopStep == pc = "loop" /\ \E ok \in BOOLEAN, r \in Samples : State' = loop(State, ok, r)

\* the session on the wire has published a state payload
StatePublished ==
  RuntimeSession /\ wire[Len(wire)].topic = MQTT_STATE_TOPIC

(* ------------------------------ claims -------------------------------- *)
\* C1: in every session opened by mqttReconnect each of the three discovery
\* topics gets exactly one publish, non-empty and retained, issued on the
\* Connected edge (the session stage, right after "online") and before any
\* state publish; outside such a session no discovery config is published.
DiscoveryOncePerSession ==
  /\ RuntimeSession =>
       /\ Len(wire) >= 4
       /\ \A t \in DiscoveryTopics :
            /\ Cardinality(On(t)) = 1
            /\ \A i \in On(t) :
                 /\ wire[i].payload # "" /\ wire[i].retain
                 /\ wire[i].stage = "session" /\ i \in 2..4
                 /\ \A j \in On(MQTT_STATE_TOPIC) : i < j
  /\ ~RuntimeSession =>
       \A t \in DiscoveryTopics : \A i \in On(t) : wire[i].payload = ""

\* C1 witness: the second session opened by mqttReconnect has published its
\* discovery configs and a state payload
SecondSessionDiscovered ==
  /\ RuntimeSession /\ accepted = 2 /\ retained[ConfigTopic.altitude] # ""
  /\ mqttConnected /\ On(MQTT_STATE_TOPIC) # {}

\* C2: the first publish of a session opened by mqttReconnect is the
\* retained "online" on the availability topic; every discovery config of
\* the session comes after it and before every state payload.
OnlineThenDiscoveryThenState ==
  RuntimeSession =>
    /\ wire[1].topic = MQTT_AVAILABILITY_TOPIC
    /\ wire[1].payload = "online" /\ wire[1].retain
    /\ \A i \in DOMAIN wire :
         wire[i].topic \in DiscoveryTopics =>
           /\ i > 1
           /\ \A j \in 1..(i - 1) : wire[j].topic # MQTT_STATE_TOPIC

\* C2 witness: a first session with all five publishes on the wire
FirstSessionPublishedState ==
  /\ RuntimeSession /\ accepted = 1 /\ Len(wire) = 5
  /\ wire[5].topic = MQTT_STATE_TOPIC

\* C3: no publish is issued while WiFi.status() is not WL_CONNECTED.
NoPublishWithoutLink == \A i \in DOMAIN wire : wire[i].link

\* C4: whenever the link is not associated the session is not connected.
LinkDownImpliesSessionDown == wifiStatus # WL_CONNECTED => ~mqttConnected

\* C5: an iteration in which the state deadline fires while the session is
\* connected and the latest reading has a NaN channel issues no state
\* publish and leaves the retained state in place.
SensorInvalidSkip ==
  [][ ( /\ pc = "loop" /\ mqttTime' # mqttTime
        /\ mqttConnected' /\ Invalid(humid', tempC', pressure') )
      => ( /\ "state" \notin tickPubs'
           /\ retained'[MQTT_STATE_TOPIC] = retained[MQTT_STATE_TOPIC] ) ]_vars

\* C6: an iteration in which the display is refreshed paints "BME Error"
\* exactly when one of the three channels is NaN, and the reading otherwise.
BannerIffAnyChannelNaN ==
  [][ (pc = "loop" /\ oledTime' # oledTime)
      => ( /\ (screen' = "BME Error") <=> Invalid(humid', tempC', pressure')
           /\ (screen' = "Reading") <=> ~Invalid(humid', tempC', pressure') ) ]_vars

\* C7: on the broker every "online" of the availability topic is followed
\* by "offline" before the next "online", the node publishes to the
\* availability topic once per session (the "online" on connect), and once
\* the broker no longer holds the session the "offline" has arrived.
AvailabilityOnlineThenOffline ==
  /\ \A i \in DOMAIN availLog :
       (availLog[i] = "online" /\ i < Len(availLog)) => availLog[i + 1] = "offline"
  /\ \A i \in DOMAIN availLog :
       (availLog[i] = "offline" /\ i < Len(availLog)) => availLog[i + 1] # "offline"
  /\ RuntimeSession => On(MQTT_AVAILABILITY_TOPIC) = {1}
  /\ (availLog # << >> /\ availLog[Len(availLog)] = "online") => brokerSession = "will"

\* C7 witness: two lifetimes, both closed by the last-will
TwoLifetimesClosed ==
  /\ availLog = << "online", "offline", "online", "offline" >>
  /\ brokerSession = "none"

NoPublishWhileRejected ==
  accepted = 0 => (wire = << >> /\ tickPubs = {} /\ retained = PriorRetained)

\* C9 witness: connects were rejected twice in a row and the state deadline
\* has fired
RejectedAndStateDue ==
  /\ accepted = 0 /\ connectLog.prev # -1 /\ ~connectLog.ok
  /\ mqttTime # 0 /\ wifiStatus = WL_CONNECTED

\* C10: two consecutive connect attempts of loop(), the first of them
\* failed, are at least the retry cooldown apart.
ConnectRateLimited ==
  connectLog.prev # -1 => USub(connectLog.last, connectLog.prev) >= RetryCooldown

\* the session of the node was killed and the link is still up
SessionKilled ==
  /\ pc = "loop" /\ ~mqttConnected /\ wifiStatus = WL_CONNECTED
  /\ accepted >= 1 /\ brokerSession = "none"

\* a session opened by mqttReconnect has published "online", the three
\* discovery configs and a state payload
SessionRecovered ==
  /\ pc = "loop" /\ mqttConnected /\ brokerSession = "will"
  /\ RuntimeSession /\ Len(wire) >= 5
  /\ wire[1].topic = MQTT_AVAILABILITY_TOPIC /\ wire[1].payload = "online"
  /\ \A t \in DiscoveryTopics : \E i \in On(t) : wire[i].payload # ""
  /\ On(MQTT_STATE_TOPIC) # {}

\* C11: with the link up, a broker that accepts connects and loop() called
\* again and again, a killed session leads to a new session that has
\* published "online", the three discovery configs and a state payload; the
\* node never leaves loop() on the way.
BrokerDropRecovery ==
  /\ SessionKilled ~> SessionRecovered
  /\ [][pc = "loop" => pc' = "loop"]_vars

\* C11 witness: the session opened after a kill has published everything
RecoveredAfterKill ==
  /\ SessionRecovered /\ accepted = 2
  /\ availLog = << "online", "offline", "online" >>

ResetPublishesEightThenReboots ==
  [][ (pc = "boot" /\ accepted' # accepted)
      => ( /\ EightEmptyPublishes(wire')
           /\ retained' = Cleared
           /\ brokerSession' = "none" /\ ~mqttConnected'
           /\ pc' = "boot" /\ now' = 0 /\ bootFrames' = << >>
           /\ ~mqttResetRequested' /\ ~mqttDiscoverySent' ) ]_vars

\* C13 witness: the node is back at power-on after its first reset
RebootedAfterReset ==
  /\ pc = "boot" /\ accepted = 1 /\ EightEmptyPublishes(wire)
  /\ retained = Cleared

\* C14: a run of setup() that sampled the button low and did not complete
\* the reset (the link did not associate, or the broker rejected the
\* connect) paints the failure screen, issues no publish, does not restart
\* and enters loop().
ResetFailureShown ==
  [][ ( /\ pc = "boot" /\ accepted' = accepted
        /\ bootFrames' # << >> /\ bootFrames'[1] = "MQTT RESET MODE" )
      => ( /\ \E i \in DOMAIN bootFrames' : bootFrames'[i] = "MQTT Reset FAILED"
           /\ wire' = wire /\ retained' = retained
           /\ pc' = "loop" /\ now' > now ) ]_vars

\* C15: from whatever the broker holds, the successful reset path run twice
\* leaves the broker with what it holds after one run: an empty retained
\* payload on each of the six config topics, the state topic and the
\* availability topic.
ResetIdempotent ==
  pc = "boot" =>
    LET once  == setup(State, TRUE, 1, TRUE)
        twice == setup(once, TRUE, 1, TRUE)
    IN  /\ once.retained = Cleared
        /\ twice.retained = once.retained
        /\ once.pc = "boot" /\ twice.pc = "boot"

\* C15 witness: the node has run the reset path twice in succession
ResetTwice ==
  /\ pc = "boot" /\ accepted = 2 /\ now = 0
  /\ EightEmptyPublishes(wire) /\ retained = Cleared

\* C16: loop() calls WiFi.begin only while the link is not associated, and
\* never sooner than the link-retry cooldown after the previous WiFi.begin,
\* that of setupWiFi included.
AssociationRateLimited ==
  [][ (pc = "loop" /\ beginLog' # beginLog)
      => ( /\ wifiStatus # WL_CONNECTED
           /\ beginLog'.prev = beginLog.last /\ beginLog'.last = now
           /\ beginLog.last # -1 =>
                USub(beginLog'.last, beginLog.last) >= wifiReconnectDelay ) ]_vars

\* C17: in every iteration of loop() at most one stage calls publish; the
\* session stage and the state stage never both publish in one iteration.
OnePublishingStagePerTick ==
  /\ Cardinality(tickPubs) <= 1
  /\ ~({"session", "state"} \subseteq tickPubs)

\* C18: at the end of every iteration of loop() the discovery latch is set
\* only if the session is connected, and a call of publishDiscovery with
\* the latch set changes nothing.
DiscoveryLatchOnlyWhileConnected ==
  /\ [][ ~(mqttDiscoverySent' /\ ~mqttConnected' /\ LoopStep) ]_vars
  /\ [](mqttDiscoverySent => publishDiscovery(State) = State)

\* C19: once the first iteration of loop() has fired all three deadlines,
\* a deadline fires in an iteration exactly when millis() minus the
\* deadline, modulo the width of the counter, is at least its period; it is
\* then set to millis(), and two firings of a deadline are a full period
\* or more apart, across the wrap of millis() as well.
TimerWheelFullPeriod ==
  [][ (pc = "loop" /\ stage = "state" /\ LoopStep)
      => ( /\ bmeTime' = IF USub(now, bmeTime) >= bmeDelay THEN now ELSE bmeTime
           /\ oledTime' = IF USub(now, oledTime) >= oledDelay THEN now ELSE oledTime
           /\ mqttTime' = IF USub(now', mqttTime) >= mqttDelay THEN now' ELSE mqttTime
           /\ bmeTime' # bmeTime => USub(bmeTime', bmeTime) >= bmeDelay
           /\ oledTime' # oledTime => USub(oledTime', oledTime) >= oledDelay
           /\ mqttTime' # mqttTime => USub(mqttTime', mqttTime) >= mqttDelay ) ]_vars

\* C20: no iteration of loop() executes delay(): the clock read at the end
\* of an iteration is the clock read at its start, with a valid reading on
\* the display and with the error banner alike.
LoopNeverDelays ==
  [][ (pc = "loop" /\ now' # now) => ~LoopStep ]_vars

====
